---- MODULE Spec2Model ----
(***************************************************************************)
(* Winding-number propagation of igl::cgal (propagate_winding_numbers.cpp) *)
(* as state machines: the patch-wise propagator behind                     *)
(* propagate_winding_numbers_single_component, the cell-wise propagator    *)
(* propagate_winding_numbers_beta and the multi-component entry point      *)
(* propagate_winding_numbers.                                              *)
(*                                                                         *)
(* Indices are zero based as in the source: a matrix row or a vector is a  *)
(* function over 0..n-1.  The geometric collaborators (patch extraction,   *)
(* order_facets_around_edge, outer_facet, closest_facet, extract_cells)    *)
(* are inputs chosen in Init.                                              *)
(***************************************************************************)
EXTENDS Integers, Sequences, FiniteSets, TLC

\* ------------------------------------------------------------------ bounds
MaxPatches == 3
MaxLabel == 1
MaxCurves == 2
MaxIncid == 4
MaxFaces == 3
MaxCells == 3
MaxComponents == 3
MaxCurvedComponents == 2
MaxMeshFaces == 3
MaxCompPatches == 2
MaxCompIncid == 2
MaxCompCurves == 1

\* --------------------------------------------------------------- constants
\* std::numeric_limits<int>::max()
INVALID == 2147483647

VARIABLES
  P,                      \* face -> patch
  labels,                 \* face -> label (empty until the unlabelled overload fills it)
  orders,                 \* curve -> position -> patch
  orientations,           \* curve -> position -> BOOLEAN
  outer_facet_idx,
  outer_facet_is_flipped,
  is_orientable,          \* what is_orientable(F, uE, uE2E) gives on the mesh
  patch_labels,
  patch_W,
  Q,
  is_consistent,
  W,
  pc,
  per_patch_cells,        \* patch -> (positive cell, negative cell)
  cell_labels,            \* colours of the odd-cycle check: 0, 1 or -1
  odd_cycle,              \* "Odd cell cycle detected!" was reported
  per_cell_W,
  uE2E,                   \* unique edge -> number of incident half-edges
  C,                      \* face -> connected component
  comp_geometry,          \* component -> what the collaborators report on it
  components,             \* component -> its faces, in increasing order
  comp_labels,            \* component -> local face -> label
  Ws,                     \* component -> per-face matrix of its own run
  ambient_correction,
  comp_i,                 \* the loop index i of the component loops
  cf_fids,                \* fids of closest_facet: component -> sample -> local face
  cf_orientation,         \* orientation of closest_facet: component -> sample -> BOOLEAN
  cout,                   \* components reported as inconsistent, in order
  pushes                  \* patch -> number of Q.push calls of the patch-wise BFS with it

inputVars == <<P, orders, orientations, outer_facet_idx, outer_facet_is_flipped,
               is_orientable>>
pwVars == <<patch_W, is_consistent, pushes>>
cwVars == <<per_patch_cells, cell_labels, odd_cycle, per_cell_W>>
mcVars == <<uE2E, C, comp_geometry, components, comp_labels, Ws,
            ambient_correction, comp_i, cf_fids, cf_orientation, cout>>
vars == <<P, labels, orders, orientations, outer_facet_idx,
          outer_facet_is_flipped, is_orientable, patch_labels, patch_W, Q, is_consistent,
          W, pc, per_patch_cells, cell_labels, odd_cycle, per_cell_W,
          uE2E, C, comp_geometry, components, comp_labels, Ws,
          ambient_correction, comp_i, cf_fids, cf_orientation, cout, pushes>>

\* ----------------------------------------------------------------- helpers
Rows(n) == 0..(n-1)
Size(v) == Cardinality(DOMAIN v)
maxCoeff(v) == CHOOSE x \in {v[i] : i \in DOMAIN v} : \A i \in DOMAIN v : v[i] <= x
EmptyVec == [i \in {} |-> 0]

\* A row of a winding matrix holds no INVALID entry.
winding_num_assigned(M, patch_idx) ==
  \A c \in DOMAIN M[patch_idx] : M[patch_idx][c] # INVALID

\* patch_labels[P[i]] = labels[i] for the first face i of each patch.
PatchLabelsOf(Pv, lv) ==
  [p \in Rows(maxCoeff(Pv) + 1) |->
     LET first == CHOOSE i \in DOMAIN Pv :
                    Pv[i] = p /\ \A j \in DOMAIN Pv : Pv[j] = p => i <= j
     IN lv[first]]

\* The arrangement handed to the patch-wise propagator.
Arrangement(Pv, plv, ov, oriv, of, flip) ==
  [P |-> Pv, labels |-> plv, orders |-> ov, orientations |-> oriv,
   outer_facet_idx |-> of, outer_facet_is_flipped |-> flip]

num_patches(a) == maxCoeff(a.P) + 1
num_labels(a) == maxCoeff(a.labels) + 1

\* patch_curve_adjacency[p]: curve i once per incidence of p on curve i,
\* curves in increasing order.
RECURSIVE Repeat(_, _)
Repeat(x, n) == IF n = 0 THEN <<>> ELSE <<x>> \o Repeat(x, n - 1)

RECURSIVE CurveAdjacencyFrom(_, _, _)
CurveAdjacencyFrom(a, p, i) ==
  IF i >= Size(a.orders) THEN <<>>
  ELSE Repeat(i, Cardinality({j \in DOMAIN a.orders[i] : a.orders[i][j] = p}))
         \o CurveAdjacencyFrom(a, p, i + 1)

patch_curve_adjacency(a, p) == CurveAdjacencyFrom(a, p, 0)

\* Mutant of SeedW: the flip flag of the outer face is ignored.
SeedW_NoFlip(a) ==
  LET outer_patch_idx == a.P[a.outer_facet_idx]
      outer_patch_label == a.labels[outer_patch_idx]
  IN [p \in Rows(num_patches(a)) |->
       [c \in Rows(2 * num_labels(a)) |->
          IF p # outer_patch_idx THEN INVALID
          ELSE IF c = outer_patch_label * 2 + 1 THEN 1
          ELSE 0]]

\* Mutant of SeedW: the seed is written into the columns of label 0.
SeedW_LabelZero(a) ==
  LET outer_patch_idx == a.P[a.outer_facet_idx]
  IN [p \in Rows(num_patches(a)) |->
       [c \in Rows(2 * num_labels(a)) |->
          IF p # outer_patch_idx THEN INVALID
          ELSE IF a.outer_facet_is_flipped /\ c = 0 THEN -1
          ELSE IF ~a.outer_facet_is_flipped /\ c = 1 THEN 1
          ELSE 0]]

\* ---------------------------------------------------------------- the seed
SeedW(a) ==
  LET outer_patch_idx == a.P[a.outer_facet_idx]
      outer_patch_label == a.labels[outer_patch_idx]
  IN [p \in Rows(num_patches(a)) |->
       [c \in Rows(2 * num_labels(a)) |->
          IF p # outer_patch_idx THEN INVALID
          ELSE IF a.outer_facet_is_flipped /\ c = outer_patch_label * 2 THEN -1
          ELSE IF ~a.outer_facet_is_flipped /\ c = outer_patch_label * 2 + 1 THEN 1
          ELSE 0]]

\* ------------------------------------------------- derivation of neighbours
\* First position of the current patch in the cyclic order (the loop breaks
\* at the first hit).
FirstPosition(order, curr_patch_idx) ==
  CHOOSE i \in DOMAIN order :
    order[i] = curr_patch_idx /\ \A j \in DOMAIN order : order[j] = curr_patch_idx => i <= j

NextIndex(curr_i, curr_ori, n) ==
  IF curr_ori THEN (curr_i + 1) % n ELSE (curr_i + n - 1) % n

PrevIndex(curr_i, curr_ori, n) ==
  IF curr_ori THEN (curr_i + n - 1) % n ELSE (curr_i + 1) % n

\* Mutant of NextRow: the increment of the crossed label has the wrong sign.
NextRow_WrongSign(a, M, curr_patch_idx, next_patch_idx, curr_ori, next_ori) ==
  LET next_cons == next_ori # curr_ori
      next_patch_label == a.labels[next_patch_idx]
  IN [c \in Rows(2 * num_labels(a)) |->
       LET i == c \div 2
           shared_winding_number == M[curr_patch_idx][i * 2]
       IN IF i = next_patch_label
          THEN IF c = i * 2 + (IF next_cons THEN 0 ELSE 1)
               THEN shared_winding_number
               ELSE shared_winding_number + (IF next_cons THEN -1 ELSE 1)
          ELSE shared_winding_number]

NextRow(a, M, curr_patch_idx, next_patch_idx, curr_ori, next_ori) ==
  LET next_cons == next_ori # curr_ori
      next_patch_label == a.labels[next_patch_idx]
  IN [c \in Rows(2 * num_labels(a)) |->
       LET i == c \div 2
           shared_winding_number == M[curr_patch_idx][i * 2]
       IN IF i = next_patch_label
          THEN IF c = i * 2 + (IF next_cons THEN 0 ELSE 1)
               THEN shared_winding_number
               ELSE shared_winding_number + (IF next_cons THEN 1 ELSE -1)
          ELSE shared_winding_number]

\* Mutant of PrevRow: the backward neighbour shares the front value of the
\* current patch.
PrevRow_SharesFront(a, M, curr_patch_idx, prev_patch_idx, curr_ori, prev_ori) ==
  LET prev_cons == prev_ori # curr_ori
      prev_patch_label == a.labels[prev_patch_idx]
  IN [c \in Rows(2 * num_labels(a)) |->
       LET i == c \div 2
           shared_winding_number == M[curr_patch_idx][i * 2]
       IN IF i = prev_patch_label
          THEN IF c = i * 2 + (IF prev_cons THEN 1 ELSE 0)
               THEN shared_winding_number
               ELSE shared_winding_number + (IF prev_cons THEN -1 ELSE 1)
          ELSE shared_winding_number]

PrevRow(a, M, curr_patch_idx, prev_patch_idx, curr_ori, prev_ori) ==
  LET prev_cons == prev_ori # curr_ori
      prev_patch_label == a.labels[prev_patch_idx]
  IN [c \in Rows(2 * num_labels(a)) |->
       LET i == c \div 2
           shared_winding_number == M[curr_patch_idx][i * 2 + 1]
       IN IF i = prev_patch_label
          THEN IF c = i * 2 + (IF prev_cons THEN 1 ELSE 0)
               THEN shared_winding_number
               ELSE shared_winding_number + (IF prev_cons THEN -1 ELSE 1)
          ELSE shared_winding_number]

\* Mutant of ProcessCurve: the row of an assigned next patch is derived and
\* written again.
ProcessCurve_Overwrites(a, st, curr_patch_idx, curve_idx) ==
  LET order == a.orders[curve_idx]
      orientation == a.orientations[curve_idx]
      num_adj_patches == Size(order)
      curr_i == FirstPosition(order, curr_patch_idx)
      curr_ori == orientation[curr_i]
      next_i == NextIndex(curr_i, curr_ori, num_adj_patches)
      prev_i == PrevIndex(curr_i, curr_ori, num_adj_patches)
      next_patch_idx == order[next_i]
      prev_patch_idx == order[prev_i]
      st1 == [W |-> [st.W EXCEPT ![next_patch_idx] =
                       NextRow(a, st.W, curr_patch_idx, next_patch_idx,
                               curr_ori, orientation[next_i])],
              Q |-> IF ~winding_num_assigned(st.W, next_patch_idx)
                    THEN Append(st.Q, next_patch_idx) ELSE st.Q]
      st2 == IF ~winding_num_assigned(st1.W, prev_patch_idx)
             THEN [W |-> [st1.W EXCEPT ![prev_patch_idx] =
                            PrevRow(a, st1.W, curr_patch_idx, prev_patch_idx,
                                    curr_ori, orientation[prev_i])],
                   Q |-> Append(st1.Q, prev_patch_idx)]
             ELSE st1
  IN st2

\* Mutant of ProcessCurve: the next patch is pushed whether or not it has
\* a row already.
ProcessCurve_PushesAssigned(a, st, curr_patch_idx, curve_idx) ==
  LET order == a.orders[curve_idx]
      orientation == a.orientations[curve_idx]
      num_adj_patches == Size(order)
      curr_i == FirstPosition(order, curr_patch_idx)
      curr_ori == orientation[curr_i]
      next_i == NextIndex(curr_i, curr_ori, num_adj_patches)
      prev_i == PrevIndex(curr_i, curr_ori, num_adj_patches)
      next_patch_idx == order[next_i]
      prev_patch_idx == order[prev_i]
      st1 == [W |-> IF ~winding_num_assigned(st.W, next_patch_idx)
                    THEN [st.W EXCEPT ![next_patch_idx] =
                            NextRow(a, st.W, curr_patch_idx, next_patch_idx,
                                    curr_ori, orientation[next_i])]
                    ELSE st.W,
              Q |-> Append(st.Q, next_patch_idx)]
      st2 == IF ~winding_num_assigned(st1.W, prev_patch_idx)
             THEN [W |-> [st1.W EXCEPT ![prev_patch_idx] =
                            PrevRow(a, st1.W, curr_patch_idx, prev_patch_idx,
                                    curr_ori, orientation[prev_i])],
                   Q |-> Append(st1.Q, prev_patch_idx)]
             ELSE st1
  IN st2

\* Body of the loop over adj_curves for one curve: st = [W, Q].
ProcessCurve(a, st, curr_patch_idx, curve_idx) ==
  LET order == a.orders[curve_idx]
      orientation == a.orientations[curve_idx]
      num_adj_patches == Size(order)
      curr_i == FirstPosition(order, curr_patch_idx)
      curr_ori == orientation[curr_i]
      next_i == NextIndex(curr_i, curr_ori, num_adj_patches)
      prev_i == PrevIndex(curr_i, curr_ori, num_adj_patches)
      next_patch_idx == order[next_i]
      prev_patch_idx == order[prev_i]
      st1 == IF ~winding_num_assigned(st.W, next_patch_idx)
             THEN [W |-> [st.W EXCEPT ![next_patch_idx] =
                            NextRow(a, st.W, curr_patch_idx, next_patch_idx,
                                    curr_ori, orientation[next_i])],
                   Q |-> Append(st.Q, next_patch_idx)]
             ELSE st
      st2 == IF ~winding_num_assigned(st1.W, prev_patch_idx)
             THEN [W |-> [st1.W EXCEPT ![prev_patch_idx] =
                            PrevRow(a, st1.W, curr_patch_idx, prev_patch_idx,
                                    curr_ori, orientation[prev_i])],
                   Q |-> Append(st1.Q, prev_patch_idx)]
             ELSE st1
  IN st2

RECURSIVE ProcessCurves(_, _, _, _)
ProcessCurves(a, st, curr_patch_idx, adj_curves) ==
  IF adj_curves = <<>> THEN st
  ELSE ProcessCurves(a, ProcessCurve(a, st, curr_patch_idx, Head(adj_curves)),
                     curr_patch_idx, Tail(adj_curves))

\* One iteration of while (!Q.empty()).
Dequeue(a, st) ==
  LET curr_patch_idx == Head(st.Q)
  IN ProcessCurves(a, [W |-> st.W, Q |-> Tail(st.Q)], curr_patch_idx,
                   patch_curve_adjacency(a, curr_patch_idx))

\* ------------------------------------------------------- closure verification
RECURSIVE ConsistentFrom(_, _, _, _, _, _)
ConsistentFrom(ov, oriv, M, i, j, k) ==
  IF i >= Size(ov) THEN TRUE
  ELSE LET order == ov[i]
           orientation == oriv[i]
           order_size == Size(order)
           cols == IF DOMAIN M = {} THEN 0 ELSE Size(M[0])
       IN IF j >= order_size THEN ConsistentFrom(ov, oriv, M, i + 1, 0, 0)
          ELSE IF k >= cols \div 2 THEN ConsistentFrom(ov, oriv, M, i, j + 1, 0)
          ELSE LET curr == j
                   next == (j + 1) % order_size
                   curr_winding_number ==
                     M[order[curr]][k * 2 + (IF orientation[curr] THEN 0 ELSE 1)]
                   next_winding_number ==
                     M[order[next]][k * 2 + (IF orientation[next] THEN 1 ELSE 0)]
               IN IF curr_winding_number # next_winding_number THEN FALSE
                  ELSE ConsistentFrom(ov, oriv, M, i, j, k + 1)

\* Mutant of the verification: the pair (last, first) of each cyclic order
\* is not compared.
Consistent_NoWrap(ov, oriv, M) ==
  \A i \in DOMAIN ov : \A j \in Rows(Size(ov[i]) - 1) :
    \A k \in Rows((IF DOMAIN M = {} THEN 0 ELSE Size(M[0])) \div 2) :
      M[ov[i][j]][k * 2 + (IF oriv[i][j] THEN 0 ELSE 1)]
        = M[ov[i][j + 1]][k * 2 + (IF oriv[i][j + 1] THEN 1 ELSE 0)]

\* Mutant of the verification: only the columns of label 0 are compared.
Consistent_FirstLabelOnly(ov, oriv, M) ==
  \A i \in DOMAIN ov : \A j \in DOMAIN ov[i] :
    LET nx == (j + 1) % Size(ov[i])
    IN M[ov[i][j]][IF oriv[i][j] THEN 0 ELSE 1]
         = M[ov[i][nx]][IF oriv[i][nx] THEN 1 ELSE 0]

\* Mutant of the verification: only the first curve is looked at.
Consistent_FirstCurveOnly(ov, oriv, M) ==
  \A i \in DOMAIN ov \cap {0} : \A j \in DOMAIN ov[i] :
    LET nx == (j + 1) % Size(ov[i])
    IN \A k \in Rows((IF DOMAIN M = {} THEN 0 ELSE Size(M[0])) \div 2) :
         M[ov[i][j]][k * 2 + (IF oriv[i][j] THEN 0 ELSE 1)]
           = M[ov[i][nx]][k * 2 + (IF oriv[i][nx] THEN 1 ELSE 0)]

winding_number_assignment_is_consistent(ov, oriv, per_patch_winding_number) ==
  ConsistentFrom(ov, oriv, per_patch_winding_number, 0, 0, 0)

\* The whole BFS, for callers that run the propagator to completion.
RECURSIVE RunQueue(_, _)
RunQueue(a, st) == IF st.Q = <<>> THEN st ELSE RunQueue(a, Dequeue(a, st))

\* The patch-wise propagator run to its end on an arrangement: patch_W when
\* the BFS loop exits.
PatchWiseW(a) ==
  RunQueue(a, [W |-> SeedW(a), Q |-> <<a.P[a.outer_facet_idx]>>]).W

\* propagate_winding_numbers_single_component: the per-face expansion.
SingleComponentW(a) == [i \in DOMAIN a.P |-> PatchWiseW(a)[a.P[i]]]

\* ------------------------------------------------------------------ inputs
\* Face-to-patch maps as extract_manifold_patches numbers them: patch ids in
\* the order of their first face, every patch non-empty.
FaceMaps(np) ==
  UNION {{Pv \in [Rows(nf) -> Rows(np)] :
            /\ \A p \in Rows(np) : \E f \in Rows(nf) : Pv[f] = p
            /\ \A f \in Rows(nf) : \A q \in Rows(Pv[f]) :
                 \E g \in Rows(f) : Pv[g] = q}
         : nf \in np..MaxFaces}

\* One intersection curve after the curve ordering adapter: the cyclic order
\* of incident patches and the orientation flag of each incidence; at least
\* two incidences.
CurvesUpTo(np, t) ==
  UNION {{[order |-> o, orientation |-> r] :
            o \in [Rows(l) -> Rows(np)], r \in [Rows(l) -> BOOLEAN]}
         : l \in 2..t}

\* Sequences of at most k curves of C with at most t incidences in all.
RECURSIVE SeqsOver(_, _, _)
SeqsOver(Cs, t, k) ==
  {<<>>} \cup
  (IF k = 0 THEN {}
   ELSE UNION {{<<c>> \o rest : rest \in SeqsOver(Cs, t - Size(c.order), k - 1)}
               : c \in {d \in Cs : Size(d.order) <= t}})

CurveSeqs(np, t, k) == SeqsOver(CurvesUpTo(np, t), t, k)

\* Patches linked to the patches of S through chains of shared curves.
RECURSIVE LinkedFrom(_, _)
LinkedFrom(ov, S) ==
  LET T == S \cup {q \in UNION {{ov[i][j] : j \in DOMAIN ov[i]} : i \in DOMAIN ov} :
                     \E i \in DOMAIN ov :
                       /\ \E j \in DOMAIN ov[i] : ov[i][j] \in S
                       /\ \E j \in DOMAIN ov[i] : ov[i][j] = q}
  IN IF T = S THEN S ELSE LinkedFrom(ov, T)

\* A single connected component: every patch is linked to every other one.
SingleComponent(np, ov) == LinkedFrom(ov, {0}) = Rows(np)

\* The multi-component entry point is not part of the run.
NoMesh ==
  /\ uE2E = EmptyVec
  /\ C = EmptyVec
  /\ comp_geometry = EmptyVec
  /\ components = EmptyVec
  /\ comp_labels = EmptyVec
  /\ Ws = EmptyVec
  /\ ambient_correction = EmptyVec
  /\ comp_i = 0
  /\ cf_fids = EmptyVec
  /\ cf_orientation = EmptyVec
  /\ cout = <<>>

\* ----------------------------------------- propagate_winding_numbers_single_component
Init ==
  \E np \in 1..MaxPatches :
    \E Pv \in FaceMaps(np), cs \in CurveSeqs(np, MaxIncid, MaxCurves),
       plv \in [Rows(np) -> 0..MaxLabel] :
      /\ P = Pv
      /\ orders = [i \in Rows(Len(cs)) |-> cs[i + 1].order]
      /\ orientations = [i \in Rows(Len(cs)) |-> cs[i + 1].orientation]
      /\ SingleComponent(np, orders)
      /\ outer_facet_idx \in DOMAIN Pv
      /\ outer_facet_is_flipped \in BOOLEAN
      /\ is_orientable = FALSE
      /\ \/ pc = "labelled" /\ labels = [f \in DOMAIN Pv |-> plv[Pv[f]]]
         \/ pc = "unlabelled" /\ labels = EmptyVec /\ plv = [p \in Rows(np) |-> 0]
      /\ patch_labels = EmptyVec
      /\ patch_W = EmptyVec
      /\ Q = <<>>
      /\ is_consistent = FALSE
      /\ W = EmptyVec
      /\ per_patch_cells = EmptyVec
      /\ cell_labels = EmptyVec
      /\ odd_cycle = <<>>
      /\ per_cell_W = EmptyVec
      /\ pushes = EmptyVec
      /\ NoMesh

Arr == Arrangement(P, patch_labels, orders, orientations, outer_facet_idx,
                   outer_facet_is_flipped)

\* The overload without labels: labels.setZero().
SCUnlabelled ==
  /\ pc = "unlabelled"
  /\ labels' = [f \in DOMAIN P |-> 0]
  /\ pc' = "labelled"
  /\ UNCHANGED <<inputVars, patch_labels, patch_W, Q, is_consistent, W, cwVars, mcVars, pushes>>

\* Patch labels from face labels, then the call of the patch-wise propagator.
SCPatchLabels ==
  /\ pc = "labelled"
  /\ patch_labels' = PatchLabelsOf(P, labels)
  /\ pc' = "seed"
  /\ UNCHANGED <<inputVars, labels, patch_W, Q, is_consistent, W, cwVars, mcVars, pushes>>

\* patch_W.setConstant(INVALID), the seed row, Q.push(outer_patch_idx).
PWSeed ==
  /\ pc = "seed"
  /\ patch_W' = SeedW(Arr)
  /\ Q' = <<P[outer_facet_idx]>>
  /\ pushes' = [p \in Rows(num_patches(Arr)) |-> IF p = P[outer_facet_idx] THEN 1 ELSE 0]
  /\ pc' = "bfs"
  /\ UNCHANGED <<inputVars, labels, patch_labels, is_consistent, W, cwVars, mcVars>>

\* One iteration of the BFS loop.
PWDequeue ==
  /\ pc = "bfs"
  /\ Q # <<>>
  /\ LET st == Dequeue(Arr, [W |-> patch_W, Q |-> Q])
     IN /\ patch_W' = st.W
        /\ Q' = st.Q
        /\ pushes' = [p \in DOMAIN pushes |->
                        pushes[p] + Cardinality({k \in Len(Q)..Len(st.Q) : st.Q[k] = p})]
        /\ pc' = IF st.Q = <<>> THEN "verify" ELSE "bfs"
  /\ UNCHANGED <<inputVars, labels, patch_labels, is_consistent, W, cwVars, mcVars>>

\* assert((patch_W.array() != INVALID).all()) in a build with assertions.
PWAssertFail ==
  /\ pc = "verify"
  /\ \E p \in DOMAIN patch_W : ~winding_num_assigned(patch_W, p)
  /\ pc' = "abort"
  /\ UNCHANGED <<inputVars, labels, patch_labels, patch_W, Q, is_consistent, W, cwVars, mcVars, pushes>>

\* The assertion passes (or is compiled out); the verification pass gives
\* the return value.
PWReturn ==
  /\ pc = "verify"
  /\ is_consistent' = winding_number_assignment_is_consistent(orders, orientations, patch_W)
  /\ pc' = "expand"
  /\ UNCHANGED <<inputVars, labels, patch_labels, patch_W, Q, W, cwVars, mcVars, pushes>>

\* Mutant of SCExpand: every face gets the row of the patch of face 0.
SCExpand_FirstFacePatch ==
  /\ pc = "expand"
  /\ W' = [i \in DOMAIN P |-> patch_W[P[0]]]
  /\ pc' = "done"
  /\ UNCHANGED <<inputVars, labels, patch_labels, patch_W, Q, is_consistent, cwVars, mcVars, pushes>>

\* W.row(i) = winding_numbers.row(P[i]); return is_consistent.
SCExpand ==
  /\ pc = "expand"
  /\ W' = [i \in DOMAIN P |-> patch_W[P[i]]]
  /\ pc' = "done"
  /\ UNCHANGED <<inputVars, labels, patch_labels, patch_W, Q, is_consistent, cwVars, mcVars, pushes>>

Next ==
  \/ SCUnlabelled
  \/ SCPatchLabels
  \/ PWSeed
  \/ PWDequeue
  \/ PWAssertFail
  \/ PWReturn
  \/ SCExpand

Spec == Init /\ [][Next]_vars

\* ------------------------------------------ propagate_winding_numbers_beta
\* cell_adjacency[c]: the std::set of (neighbour cell, direction, patch).
cell_adjacency(cv, c) ==
  {<<cv[i][1], FALSE, i>> : i \in {i \in DOMAIN cv : cv[i][0] = c}}
    \cup {<<cv[i][0], TRUE, i>> : i \in {i \in DOMAIN cv : cv[i][1] = c}}

\* operator< of std::tuple<size_t, bool, size_t>.
TupleLess(x, y) ==
  \/ x[1] < y[1]
  \/ x[1] = y[1] /\ ~x[2] /\ y[2]
  \/ x[1] = y[1] /\ x[2] = y[2] /\ x[3] < y[3]

\* Iteration order of the std::set.
RECURSIVE InOrder(_)
InOrder(S) ==
  IF S = {} THEN <<>>
  ELSE LET m == CHOOSE x \in S : \A y \in S \ {x} : TupleLess(x, y)
       IN <<m>> \o InOrder(S \ {m})

NumCells(cv) ==
  maxCoeff([i \in DOMAIN cv |-> IF cv[i][0] > cv[i][1] THEN cv[i][0] ELSE cv[i][1]]) + 1

\* trace_parents: from idx up to the root of its BFS tree.
RECURSIVE trace_parents(_, _)
trace_parents(parents, idx) ==
  IF parents[idx] = idx THEN <<idx>>
  ELSE <<idx>> \o trace_parents(parents, parents[idx])

RECURSIVE Reverse(_)
Reverse(q) == IF q = <<>> THEN <<>> ELSE Reverse(Tail(q)) \o <<Head(q)>>

\* One neighbour of the two-colouring BFS: st = [cell_labels, parents, Q, odd].
ColourNeighbor(st, curr_idx, neighbor) ==
  LET n == neighbor[1]
      curr_label == st.cell_labels[curr_idx]
  IN IF st.cell_labels[n] = 0
     THEN [st EXCEPT !.cell_labels[n] = curr_label * (-1),
                     !.Q = Append(st.Q, n),
                     !.parents[n] = curr_idx]
     ELSE IF st.cell_labels[n] # curr_label * (-1)
          THEN [st EXCEPT !.odd = Append(st.odd,
                   Reverse(trace_parents(st.parents, curr_idx))
                     \o trace_parents(st.parents, n))]
          ELSE st

RECURSIVE ColourNeighbors(_, _, _)
ColourNeighbors(st, curr_idx, conns) ==
  IF conns = <<>> THEN st
  ELSE ColourNeighbors(ColourNeighbor(st, curr_idx, Head(conns)), curr_idx, Tail(conns))

RECURSIVE ColourQueue(_, _)
ColourQueue(cv, st) ==
  IF st.Q = <<>> THEN st
  ELSE ColourQueue(cv, ColourNeighbors([st EXCEPT !.Q = Tail(st.Q)], Head(st.Q),
                                       InOrder(cell_adjacency(cv, Head(st.Q)))))

RECURSIVE ColourFrom(_, _, _)
ColourFrom(cv, st, i) ==
  IF i >= NumCells(cv) THEN st
  ELSE IF st.cell_labels[i] = 0
       THEN ColourFrom(cv, ColourQueue(cv, [st EXCEPT !.cell_labels[i] = 1,
                                                      !.Q = <<i>>,
                                                      !.parents[i] = i]), i + 1)
       ELSE ColourFrom(cv, st, i + 1)

\* Mutant of OddCycleCheck: only the component of cell 0 is coloured.
OddCycleCheck_FirstComponentOnly(cv) ==
  ColourQueue(cv, [cell_labels |-> [c \in Rows(NumCells(cv)) |-> IF c = 0 THEN 1 ELSE 0],
                   parents |-> [c \in Rows(NumCells(cv)) |-> IF c = 0 THEN 0 ELSE -1],
                   Q |-> <<0>>, odd |-> <<>>])

\* The odd-cycle check in a build without assertions.
OddCycleCheck(cv) ==
  ColourFrom(cv, [cell_labels |-> [c \in Rows(NumCells(cv)) |-> 0],
                  parents |-> [c \in Rows(NumCells(cv)) |-> -1],
                  Q |-> <<>>, odd |-> <<>>], 0)

infinity_cell(cv, Pv, of, flip) == cv[Pv[of]][IF flip THEN 1 ELSE 0]

SeedCellW(cv, plv, inf) ==
  [c \in Rows(NumCells(cv)) |->
     [i \in Rows(maxCoeff(plv) + 1) |-> IF c = inf THEN 0 ELSE INVALID]]

\* Mutant of CellNeighbor: the increment has the sign of the other direction.
CellNeighbor_SwappedSign(plv, st, curr_cell, neighbor) ==
  LET neighbor_cell == neighbor[1]
      direction == neighbor[2]
      patch_idx == neighbor[3]
      derived == [i \in DOMAIN st.W[curr_cell] |->
                    st.W[curr_cell][i]
                      + (IF plv[patch_idx] = i THEN (IF direction THEN 1 ELSE -1) ELSE 0)]
  IN IF \E i \in DOMAIN st.W[neighbor_cell] : st.W[neighbor_cell][i] = INVALID
     THEN [st EXCEPT !.W[neighbor_cell] = derived]
     ELSE IF st.W[neighbor_cell] # derived THEN [st EXCEPT !.mismatch = TRUE]
          ELSE st

\* One neighbour of the cell BFS: st = [W, mismatch].
CellNeighbor(plv, st, curr_cell, neighbor) ==
  LET neighbor_cell == neighbor[1]
      direction == neighbor[2]
      patch_idx == neighbor[3]
      derived == [i \in DOMAIN st.W[curr_cell] |->
                    st.W[curr_cell][i]
                      + (IF plv[patch_idx] = i THEN (IF direction THEN -1 ELSE 1) ELSE 0)]
  IN IF \E i \in DOMAIN st.W[neighbor_cell] : st.W[neighbor_cell][i] = INVALID
     THEN [st EXCEPT !.W[neighbor_cell] = derived]
     ELSE IF st.W[neighbor_cell] # derived THEN [st EXCEPT !.mismatch = TRUE]
          ELSE st

RECURSIVE CellNeighbors(_, _, _, _)
CellNeighbors(plv, st, curr_cell, conns) ==
  IF conns = <<>> THEN st
  ELSE CellNeighbors(plv, CellNeighbor(plv, st, curr_cell, Head(conns)),
                     curr_cell, Tail(conns))

\* One iteration of the cell BFS loop; the queue only loses its front.
CellDequeue(cv, plv, M, q) ==
  CellNeighbors(plv, [W |-> M, mismatch |-> FALSE], Head(q),
                InOrder(cell_adjacency(cv, Head(q))))

ReadOff(cv, Pv, M) ==
  [i \in DOMAIN Pv |->
     [c \in Rows(2 * Size(M[0])) |-> M[cv[Pv[i]][c % 2]][c \div 2]]]

\* The region between two consecutive incidences of a curve is one cell.
PairingConsistent(c, cv) ==
  \A j \in DOMAIN c.order :
    LET nx == (j + 1) % Size(c.order)
    IN cv[c.order[j]][IF c.orientation[j] THEN 0 ELSE 1]
         = cv[c.order[nx]][IF c.orientation[nx] THEN 1 ELSE 0]

CellMaps(np) ==
  UNION {{cv \in [Rows(np) -> [Rows(2) -> Rows(nc)]] :
            \A c \in Rows(nc) : \E i \in Rows(np) : \E s \in Rows(2) : cv[i][s] = c}
         : nc \in 1..MaxCells}

\* On a curve every label has as many incidences of either orientation.
BalancedCurve(c, plv) ==
  \A k \in 0..MaxLabel :
    Cardinality({j \in DOMAIN c.order : plv[c.order[j]] = k /\ c.orientation[j]})
      = Cardinality({j \in DOMAIN c.order : plv[c.order[j]] = k /\ ~c.orientation[j]})

\* The curve orderings of the same mesh, kept for the comparison with the
\* patch-wise propagator: recorded when the mesh is a valid arrangement of
\* one component (even edge degrees, balanced curves, two-colourable cell
\* graph), empty otherwise (the cell-wise propagator never reads them).
CrossCheckCurves(np, cv) ==
  {<<>>} \cup
  (IF OddCycleCheck(cv).odd # <<>> THEN {}
   ELSE {cs \in SeqsOver({c \in CurvesUpTo(np, MaxIncid) :
                             Size(c.order) % 2 = 0 /\ PairingConsistent(c, cv)},
                          MaxIncid, MaxCurves) :
           SingleComponent(np, [i \in Rows(Len(cs)) |-> cs[i + 1].order])})

\* What is_orientable can give on a mesh of nf faces: every unique edge must
\* carry as many half-edges of either direction, so the 3 * nf half-edges
\* of an orientable mesh are an even number.
OrientableResults(nf) == IF nf % 2 = 1 THEN {FALSE} ELSE BOOLEAN

InitCW ==
  \E np \in 1..MaxPatches :
    \E cv \in CellMaps(np) :
      \E cs \in CrossCheckCurves(np, cv) :
        \E Pv \in FaceMaps(np), plv \in [Rows(np) -> 0..MaxLabel] :
          /\ \A i \in 1..Len(cs) : BalancedCurve(cs[i], plv)
          /\ P = Pv
          /\ per_patch_cells = cv
          /\ orders = [i \in Rows(Len(cs)) |-> cs[i + 1].order]
          /\ orientations = [i \in Rows(Len(cs)) |-> cs[i + 1].orientation]
          /\ labels = [f \in DOMAIN Pv |-> plv[Pv[f]]]
          /\ outer_facet_idx \in DOMAIN Pv
          /\ outer_facet_is_flipped \in BOOLEAN
          /\ is_orientable \in OrientableResults(Size(Pv))
          /\ pc = "beta"
          /\ patch_labels = EmptyVec
          /\ patch_W = EmptyVec
          /\ Q = <<>>
          /\ is_consistent = FALSE
          /\ W = EmptyVec
          /\ cell_labels = EmptyVec
          /\ odd_cycle = <<>>
          /\ per_cell_W = EmptyVec
          /\ pushes = EmptyVec
          /\ NoMesh

\* assert(is_orientable(F, uE, uE2E)) at the entry, in a build with
\* assertions.
CWOrientableAssertFail ==
  /\ pc = "beta"
  /\ ~is_orientable
  /\ pc' = "abort_entry"
  /\ UNCHANGED <<inputVars, labels, patch_labels, Q, W, pwVars, cwVars, mcVars>>

\* The odd-cycle check runs to its end: every violation is reported with
\* its traced path (assertions compiled out).
CWOddCycleCheck ==
  /\ pc = "beta"
  /\ LET r == OddCycleCheck(per_patch_cells)
     IN cell_labels' = r.cell_labels /\ odd_cycle' = r.odd
  /\ pc' = "cw_seed"
  /\ UNCHANGED <<inputVars, labels, patch_labels, Q, W, pwVars,
                 per_patch_cells, per_cell_W, mcVars>>

\* assert(cell_labels[neighbor] == curr_label * (-1)) right after the report.
CWOddCycleAssertFail ==
  /\ pc = "beta"
  /\ LET r == OddCycleCheck(per_patch_cells)
     IN /\ r.odd # <<>>
        /\ odd_cycle' = <<Head(r.odd)>>
  /\ pc' = "abort"
  /\ UNCHANGED <<inputVars, labels, patch_labels, Q, W, pwVars,
                 per_patch_cells, cell_labels, per_cell_W, mcVars>>

\* outer_facet, infinity_cell, patch_labels, the seed row, Q.push(infinity_cell).
CWSeed ==
  /\ pc = "cw_seed"
  /\ patch_labels' = PatchLabelsOf(P, labels)
  /\ LET inf == infinity_cell(per_patch_cells, P, outer_facet_idx, outer_facet_is_flipped)
     IN /\ per_cell_W' = SeedCellW(per_patch_cells, patch_labels', inf)
        /\ Q' = <<inf>>
  /\ pc' = "cw_bfs"
  /\ UNCHANGED <<inputVars, labels, W, pwVars, per_patch_cells, cell_labels, odd_cycle, mcVars>>

CWDequeue ==
  /\ pc = "cw_bfs"
  /\ Q # <<>>
  /\ per_cell_W' = CellDequeue(per_patch_cells, patch_labels, per_cell_W, Q).W
  /\ Q' = Tail(Q)
  /\ pc' = IF Q' = <<>> THEN "readoff" ELSE "cw_bfs"
  /\ UNCHANGED <<inputVars, labels, patch_labels, W, pwVars, per_patch_cells,
                 cell_labels, odd_cycle, mcVars>>

\* One of the asserts on an already assigned neighbour fails.
CWRevisitAssertFail ==
  /\ pc = "cw_bfs"
  /\ Q # <<>>
  /\ CellDequeue(per_patch_cells, patch_labels, per_cell_W, Q).mismatch
  /\ pc' = "abort"
  /\ UNCHANGED <<inputVars, labels, patch_labels, Q, W, pwVars, cwVars, mcVars>>

CWReadOff ==
  /\ pc = "readoff"
  /\ W' = ReadOff(per_patch_cells, P, per_cell_W)
  /\ pc' = "cw_done"
  /\ UNCHANGED <<inputVars, labels, patch_labels, Q, pwVars, cwVars, mcVars>>

NextCW ==
  \/ CWOrientableAssertFail
  \/ CWOddCycleCheck
  \/ CWOddCycleAssertFail
  \/ CWSeed
  \/ CWDequeue
  \/ CWRevisitAssertFail
  \/ CWReadOff

SpecCW == InitCW /\ [][NextCW]_vars

\* ---------------------------------------------- propagate_winding_numbers
\* The function is declared void: nothing is returned next to W.
ReturnValue == <<>>

Vec(q) == [i \in Rows(Len(q)) |-> q[i + 1]]
ZeroMatrix(r, c) == [i \in Rows(r) |-> [j \in Rows(c) |-> 0]]

\* Mutant of HasOddDegree: only the first unique edge is looked at.
HasOddDegree_FirstEdgeOnly(degrees) ==
  Size(degrees) > 0 /\ degrees[0] % 2 = 1

\* Some adj_faces of uE2E has an odd size.
HasOddDegree(degrees) ==
  \E e \in DOMAIN degrees : degrees[e] % 2 = 1

\* components[C[i]].push_back(i) for i = 0 .. num_faces-1.
ComponentsOf(Cv) ==
  [c \in Rows(maxCoeff(Cv) + 1) |->
     [j \in Rows(Cardinality({f \in DOMAIN Cv : Cv[f] = c})) |->
        CHOOSE f \in DOMAIN Cv :
          Cv[f] = c /\ Cardinality({g \in DOMAIN Cv : g < f /\ Cv[g] = c}) = j]]

\* c_labels[j] = labels[comp[j]].
CompLabelsOf(comps, lv) ==
  [c \in DOMAIN comps |-> [j \in DOMAIN comps[c] |-> lv[comps[c][j]]]]

\* The arrangement propagate_winding_numbers_single_component builds from
\* a component's faces and labels.
ComponentArrangement(geo, lv) ==
  Arrangement(geo.P, PatchLabelsOf(geo.P, lv), geo.orders, geo.orientations,
              geo.outer_facet_idx, geo.outer_facet_is_flipped)

\* Mutant of BlockWrite: the columns right of the block repeat the block.
BlockWrite_RepeatsBlock(Wm, comp, Wi) ==
  [f \in DOMAIN Wm |->
     IF \E j \in DOMAIN comp : comp[j] = f
     THEN LET j == CHOOSE j \in DOMAIN comp : comp[j] = f
          IN [c \in DOMAIN Wm[f] |-> Wi[j][c % Size(Wi[j])]]
     ELSE Wm[f]]

\* W.block(fid, 0, 1, num_labels_in_i*2) = Ws[i].row(j) for j over comp.
BlockWrite(Wm, comp, Wi) ==
  [f \in DOMAIN Wm |->
     IF \E j \in DOMAIN comp : comp[j] = f
     THEN LET j == CHOOSE j \in DOMAIN comp : comp[j] = f
          IN [c \in DOMAIN Wm[f] |-> IF c \in DOMAIN Wi[j] THEN Wi[j][c] ELSE Wm[f][c]]
     ELSE Wm[f]]

index_without_i(i, index) == IF index < i THEN index ELSE index - 1

\* Mutant of CorrectionOf: the side of the nearest face is swapped.
CorrectionOf_OtherSide(Wm, comp, fid, ori, k) ==
  Wm[comp[fid]][k * 2 + (IF ori THEN 1 ELSE 0)]

\* const int correction = W(comp[fid], k*2+(ori?0:1)).
CorrectionOf(Wm, comp, fid, ori, k) ==
  Wm[comp[fid]][k * 2 + (IF ori THEN 0 ELSE 1)]

\* Mutant of AddCorrections: only the front column of each label receives
\* the correction.
AddCorrections_FrontColumnOnly(ac, Wm, comp, i, fv, ov) ==
  [j \in DOMAIN ac |->
     IF j = i THEN ac[j]
     ELSE [c \in DOMAIN ac[j] |->
             IF c % 2 = 1 THEN ac[j][c]
             ELSE ac[j][c] + CorrectionOf(Wm, comp, fv[index_without_i(i, j)],
                                          ov[index_without_i(i, j)], c \div 2)]]

\* The inner loop over j of the correction pass for component i.
AddCorrections(ac, Wm, comp, i, fv, ov) ==
  [j \in DOMAIN ac |->
     IF j = i THEN ac[j]
     ELSE [c \in DOMAIN ac[j] |->
             ac[j][c] + CorrectionOf(Wm, comp, fv[index_without_i(i, j)],
                                     ov[index_without_i(i, j)], c \div 2)]]

\* Mutant of ApplyCorrections: only the front columns receive the correction.
ApplyCorrections_FrontOnly(Wm, comps, ac) ==
  [f \in DOMAIN Wm |->
     LET i == CHOOSE i \in DOMAIN comps : \E j \in DOMAIN comps[i] : comps[i][j] = f
     IN [c \in DOMAIN Wm[f] |-> IF c % 2 = 0 THEN Wm[f][c] + ac[i][c] ELSE Wm[f][c]]]

\* W.row(fid) += ambient_correction.row(i) for every fid of component i.
ApplyCorrections(Wm, comps, ac) ==
  [f \in DOMAIN Wm |->
     LET i == CHOOSE i \in DOMAIN comps : \E j \in DOMAIN comps[i] : comps[i][j] = f
     IN [c \in DOMAIN Wm[f] |-> Wm[f][c] + ac[i][c]]]

\* What the collaborators report on one component of nf faces: patches,
\* ordered curves, outer face; labels are the labels of its faces.
ComponentCandidates(nf) ==
  UNION {{[P |-> Pv, labels |-> [f \in DOMAIN Pv |-> plv[Pv[f]]],
           orders |-> [i \in Rows(Len(cs)) |-> cs[i + 1].order],
           orientations |-> [i \in Rows(Len(cs)) |-> cs[i + 1].orientation],
           outer_facet_idx |-> of, outer_facet_is_flipped |-> flip] :
            Pv \in {Pv \in FaceMaps(np) : Size(Pv) = nf},
            plv \in [Rows(np) -> 0..MaxLabel],
            cs \in {cs \in CurveSeqs(np, MaxCompIncid, MaxCompCurves) :
                      SingleComponent(np, [i \in Rows(Len(cs)) |-> cs[i + 1].order])},
            of \in Rows(nf), flip \in BOOLEAN}
         : np \in 1..MaxCompPatches}

\* The components on which the patch-wise BFS reaches every patch (the
\* assertion at the end of the BFS passes).
ComponentInputs(nf) ==
  {g \in ComponentCandidates(nf) :
     \A p \in Rows(maxCoeff(g.P) + 1) :
       winding_num_assigned(PatchWiseW(ComponentArrangement(g, g.labels)), p)}

\* The number of faces of components c, c+1, ...
RECURSIVE FacesFrom(_, _)
FacesFrom(sizes, c) ==
  IF c >= Size(sizes) THEN 0 ELSE sizes[c] + FacesFrom(sizes, c + 1)

\* facet_components: component ids in the order of their first face.
FaceComponentMaps(sizes) ==
  LET nc == Size(sizes)
      first(Cv, c) == CHOOSE f \in DOMAIN Cv :
                        Cv[f] = c /\ \A g \in DOMAIN Cv : Cv[g] = c => f <= g
  IN {Cv \in [Rows(FacesFrom(sizes, 0)) -> Rows(nc)] :
        /\ \A c \in Rows(nc) : Cardinality({f \in DOMAIN Cv : Cv[f] = c}) = sizes[c]
        /\ \A c \in Rows(nc) : \A d \in Rows(nc) : c < d => first(Cv, c) < first(Cv, d)}

\* The components a mesh of nc components is made of: any component when
\* there are at most MaxCurvedComponents, components without intersection
\* curve when there are more.
MeshComponents(nc) ==
  IF nc <= MaxCurvedComponents
  THEN UNION {ComponentInputs(nf) : nf \in 1..MaxMeshFaces}
  ELSE {g \in ComponentInputs(1) : Size(g.orders) = 0}

\* The degree of one manifold edge and of every curve of each component.
RECURSIVE EdgeDegrees(_, _)
EdgeDegrees(g, c) ==
  IF c >= Size(g) THEN <<>>
  ELSE <<2>> \o [i \in 1..Size(g[c].orders) |-> Size(g[c].orders[i - 1])]
         \o EdgeDegrees(g, c + 1)

\* What the caller's W may hold when propagate_winding_numbers is entered:
\* nothing yet, or the content of an earlier use.
CallerW == {EmptyVec, [f \in Rows(1) |-> [c \in Rows(2) |-> 7]]}

InitMC ==
  \E nc \in 1..MaxComponents :
    \E sizes \in [Rows(nc) -> 1..MaxMeshFaces] :
      \E g \in [Rows(nc) -> MeshComponents(nc)],
         boundary \in {<<>>, <<1>>} :
        /\ \A c \in Rows(nc) : Size(g[c].P) = sizes[c]
        /\ FacesFrom(sizes, 0) <= MaxMeshFaces
        /\ C \in FaceComponentMaps(sizes)
        /\ labels = [f \in DOMAIN C |->
                       g[C[f]].labels[Cardinality({h \in DOMAIN C : h < f /\ C[h] = C[f]})]]
        /\ comp_geometry =
             [c \in Rows(nc) |->
                [P |-> g[c].P, orders |-> g[c].orders,
                 orientations |-> g[c].orientations,
                 outer_facet_idx |-> g[c].outer_facet_idx,
                 outer_facet_is_flipped |-> g[c].outer_facet_is_flipped]]
        /\ uE2E = Vec(EdgeDegrees(g, 0) \o boundary)
        /\ pc = "mc_check"
        /\ W \in CallerW
        /\ components = EmptyVec
        /\ comp_labels = EmptyVec
        /\ Ws = EmptyVec
        /\ ambient_correction = EmptyVec
        /\ comp_i = 0
        /\ cf_fids = EmptyVec
        /\ cf_orientation = EmptyVec
        /\ cout = <<>>
        /\ pushes = EmptyVec
        /\ is_consistent = FALSE
        /\ P = EmptyVec
        /\ orders = EmptyVec
        /\ orientations = EmptyVec
        /\ outer_facet_idx = 0
        /\ outer_facet_is_flipped = FALSE
        /\ is_orientable = FALSE
        /\ patch_labels = EmptyVec
        /\ patch_W = EmptyVec
        /\ Q = <<>>
        /\ per_patch_cells = EmptyVec
        /\ cell_labels = EmptyVec
        /\ odd_cycle = <<>>
        /\ per_cell_W = EmptyVec

singleVars == <<inputVars, patch_labels, patch_W, Q, pushes, cwVars>>
meshVars == <<uE2E, C, comp_geometry, labels>>
num_components == maxCoeff(C) + 1

\* Mutant of MCThrow: W is resized and zeroed before the degrees are looked at.
MCThrow_AfterResize ==
  /\ pc = "mc_check"
  /\ HasOddDegree(uE2E)
  /\ W' = ZeroMatrix(Size(C), 2 * (maxCoeff(labels) + 1))
  /\ pc' = "mc_error"
  /\ UNCHANGED <<singleVars, meshVars, is_consistent, components, comp_labels,
                 Ws, ambient_correction, comp_i, cf_fids, cf_orientation, cout>>

\* throw std::runtime_error on the first adj_faces of odd size.
MCThrow ==
  /\ pc = "mc_check"
  /\ HasOddDegree(uE2E)
  /\ pc' = "mc_error"
  /\ UNCHANGED <<singleVars, meshVars, W, is_consistent, components, comp_labels,
                 Ws, ambient_correction, comp_i, cf_fids, cf_orientation, cout>>

\* No odd degree: the components are gathered, W is resized and zeroed.
MCComponents ==
  /\ pc = "mc_check"
  /\ ~HasOddDegree(uE2E)
  /\ components' = ComponentsOf(C)
  /\ comp_labels' = CompLabelsOf(components', labels)
  /\ W' = ZeroMatrix(Size(C), 2 * (maxCoeff(labels) + 1))
  /\ Ws' = [c \in Rows(num_components) |-> EmptyVec]
  /\ comp_i' = 0
  /\ pc' = "mc_propagate"
  /\ UNCHANGED <<singleVars, meshVars, is_consistent, ambient_correction,
                 cf_fids, cf_orientation, cout>>

\* Mutant of MCPropagate: the commented-out throw of the inconsistent
\* branch is active.
MCPropagate_Throws ==
  /\ pc = "mc_propagate"
  /\ comp_i < num_components
  /\ LET a == ComponentArrangement(comp_geometry[comp_i], comp_labels[comp_i])
     IN /\ Ws' = [Ws EXCEPT ![comp_i] = SingleComponentW(a)]
        /\ is_consistent' =
             winding_number_assignment_is_consistent(a.orders, a.orientations,
                                                     PatchWiseW(a))
  /\ W' = BlockWrite(W, components[comp_i], Ws'[comp_i])
  /\ cout' = IF is_consistent' THEN cout ELSE Append(cout, comp_i)
  /\ comp_i' = comp_i + 1
  /\ pc' = IF ~is_consistent' THEN "mc_error"
           ELSE IF comp_i' = num_components THEN "mc_nested" ELSE "mc_propagate"
  /\ UNCHANGED <<singleVars, meshVars, components, comp_labels,
                 ambient_correction, cf_fids, cf_orientation>>

\* One iteration of the per-component loop: the component's own run, its
\* rows written into W, the report when the verification failed.
MCPropagate ==
  /\ pc = "mc_propagate"
  /\ comp_i < num_components
  /\ LET a == ComponentArrangement(comp_geometry[comp_i], comp_labels[comp_i])
     IN /\ Ws' = [Ws EXCEPT ![comp_i] = SingleComponentW(a)]
        /\ is_consistent' =
             winding_number_assignment_is_consistent(a.orders, a.orientations,
                                                     PatchWiseW(a))
  /\ W' = BlockWrite(W, components[comp_i], Ws'[comp_i])
  /\ cout' = IF is_consistent' THEN cout ELSE Append(cout, comp_i)
  /\ comp_i' = comp_i + 1
  /\ pc' = IF comp_i' = num_components THEN "mc_nested" ELSE "mc_propagate"
  /\ UNCHANGED <<singleVars, meshVars, components, comp_labels,
                 ambient_correction, cf_fids, cf_orientation>>

\* ambient_correction.setZero() and the test num_components > 1.
MCNested ==
  /\ pc = "mc_nested"
  /\ ambient_correction' = ZeroMatrix(num_components, 2 * (maxCoeff(labels) + 1))
  /\ cf_fids' = [c \in Rows(num_components) |-> EmptyVec]
  /\ cf_orientation' = [c \in Rows(num_components) |-> EmptyVec]
  /\ comp_i' = 0
  /\ pc' = IF num_components > 1 THEN "mc_correct" ELSE "mc_apply"
  /\ UNCHANGED <<singleVars, meshVars, W, is_consistent, components, comp_labels,
                 Ws, cout>>

\* Mutant of MCCorrection: the corrections of component i's query are added
\* to the faces at once.
MCCorrection_AppliesAtOnce ==
  /\ pc = "mc_correct"
  /\ comp_i < num_components
  /\ \E fv \in [Rows(num_components - 1) -> DOMAIN components[comp_i]],
        ov \in [Rows(num_components - 1) -> BOOLEAN] :
       /\ cf_fids' = [cf_fids EXCEPT ![comp_i] = fv]
       /\ cf_orientation' = [cf_orientation EXCEPT ![comp_i] = ov]
       /\ ambient_correction' =
            AddCorrections(ambient_correction, W, components[comp_i], comp_i, fv, ov)
       /\ W' = ApplyCorrections(W, components,
                 AddCorrections(ZeroMatrix(num_components, 2 * (maxCoeff(labels) + 1)),
                                W, components[comp_i], comp_i, fv, ov))
  /\ comp_i' = comp_i + 1
  /\ pc' = IF comp_i' = num_components THEN "mc_apply" ELSE "mc_correct"
  /\ UNCHANGED <<singleVars, meshVars, is_consistent, components, comp_labels,
                 Ws, cout>>

\* One iteration of the correction loop: closest_facet of component i for
\* the samples of all other components, then the additions.
MCCorrection ==
  /\ pc = "mc_correct"
  /\ comp_i < num_components
  /\ \E fv \in [Rows(num_components - 1) -> DOMAIN components[comp_i]],
        ov \in [Rows(num_components - 1) -> BOOLEAN] :
       /\ cf_fids' = [cf_fids EXCEPT ![comp_i] = fv]
       /\ cf_orientation' = [cf_orientation EXCEPT ![comp_i] = ov]
       /\ ambient_correction' =
            AddCorrections(ambient_correction, W, components[comp_i], comp_i, fv, ov)
  /\ comp_i' = comp_i + 1
  /\ pc' = IF comp_i' = num_components THEN "mc_apply" ELSE "mc_correct"
  /\ UNCHANGED <<singleVars, meshVars, W, is_consistent, components, comp_labels,
                 Ws, cout>>

\* The final loop adds every component's correction to its faces.
MCApply ==
  /\ pc = "mc_apply"
  /\ W' = ApplyCorrections(W, components, ambient_correction)
  /\ pc' = "mc_done"
  /\ UNCHANGED <<singleVars, meshVars, is_consistent, components, comp_labels,
                 Ws, ambient_correction, comp_i, cf_fids, cf_orientation, cout>>

NextMC ==
  \/ MCThrow
  \/ MCComponents
  \/ MCPropagate
  \/ MCNested
  \/ MCCorrection
  \/ MCApply

SpecMC == InitMC /\ [][NextMC]_vars

\* ================================================================== claims
Returned == pc \in {"expand", "done"}
BfsOver == pc \in {"verify", "abort", "expand", "done"}
NoCurves == Size(orders) = 0
UniformLabelZero == \A f \in DOMAIN patch_labels : patch_labels[f] = 0
Row2(front, back) == [c \in Rows(2) |-> IF c = 0 THEN front ELSE back]
AllAssigned == \A p \in DOMAIN patch_W : winding_num_assigned(patch_W, p)

\* C3 as stated: a one-patch component of label 0 without intersection
\* curves ends with consistency true and (front, back) = (0, 1) on every
\* face, whatever the flip flag of the outer face.
C3_AnyFlipZeroOne ==
  (pc = "done" /\ NoCurves /\ UniformLabelZero) =>
    /\ is_consistent
    /\ \A f \in DOMAIN W : W[f] = Row2(0, 1)

\* C3 amended: consistency is true and every face holds (0, 1) when the
\* outer face is not flipped and (-1, 0) when it is flipped.
C3_FlipDecidesSeed ==
  (pc = "done" /\ NoCurves /\ UniformLabelZero) =>
    /\ is_consistent
    /\ \A f \in DOMAIN W :
         W[f] = IF outer_facet_is_flipped THEN Row2(-1, 0) ELSE Row2(0, 1)

C3_Witness ==
  /\ pc = "done" /\ NoCurves /\ UniformLabelZero
  /\ outer_facet_is_flipped
  /\ Size(W) > 1
  /\ labels = [f \in DOMAIN P |-> 0]

\* The mismatch of the verification pass, stated over the final matrix.
Mismatch(c, j, k) ==
  LET n == Size(orders[c])
      nx == (j + 1) % n
  IN patch_W[orders[c][j]][2 * k + (IF orientations[c][j] THEN 0 ELSE 1)]
       # patch_W[orders[c][nx]][2 * k + (IF orientations[c][nx] THEN 1 ELSE 0)]

SomeMismatch ==
  \E c \in DOMAIN orders : \E j \in DOMAIN orders[c] :
    \E k \in Rows(maxCoeff(patch_labels) + 1) : Mismatch(c, j, k)

\* C6: the patch-wise propagator returns false exactly when some curve,
\* position and label mismatch, and true otherwise; the only abort is the
\* one for an unassigned patch, never one for a mismatch.
C6_ReturnIsMismatch ==
  /\ Returned => (is_consistent = ~SomeMismatch)
  /\ pc = "abort" => ~AllAssigned

C6_Witness ==
  /\ pc = "done" /\ ~is_consistent /\ AllAssigned
  /\ \E c \in DOMAIN orders : \E k \in Rows(maxCoeff(patch_labels) + 1) :
       Mismatch(c, Size(orders[c]) - 1, k)
         /\ \A j \in Rows(Size(orders[c]) - 1) : \A l \in Rows(maxCoeff(patch_labels) + 1) :
              ~Mismatch(c, j, l)

\* Incidences of label k on curve c with the given orientation flag.
Incidences(c, k, flag) ==
  Cardinality({j \in DOMAIN orders[c] :
                 patch_labels[orders[c][j]] = k /\ orientations[c][j] = flag})

Balanced ==
  \A c \in DOMAIN orders : \A k \in Rows(maxCoeff(patch_labels) + 1) :
    Incidences(c, k, TRUE) = Incidences(c, k, FALSE)

\* C7: whenever the patch-wise propagator returns true, on every curve and
\* for every label the incidences with flag true are as many as those with
\* flag false (the signed increments around the curve sum to zero).
C7_ConsistentIsBalanced == (Returned /\ is_consistent) => Balanced

C7_Witness ==
  /\ pc = "done" /\ is_consistent
  /\ \E c \in DOMAIN orders :
       Incidences(c, 0, TRUE) > 0 /\ Incidences(c, 1, TRUE) > 0
  /\ Size(patch_labels) = 3

\* C8 as stated: when the BFS is over, every patch linked to the seed patch
\* through a chain of shared curves is fully assigned.
C8_LinkedAssigned ==
  BfsOver =>
    \A p \in LinkedFrom(orders, {P[outer_facet_idx]}) :
      winding_num_assigned(patch_W, p)

\* C10: in every state of the propagation an assigned patch of label k has
\* back - front = 1 for label k and equal front and back for other labels.
C10_OwnLabelStep ==
  \A p \in DOMAIN patch_W :
    winding_num_assigned(patch_W, p) =>
      \A j \in Rows(maxCoeff(patch_labels) + 1) :
        patch_W[p][2 * j + 1] - patch_W[p][2 * j]
          = (IF j = patch_labels[p] THEN 1 ELSE 0)

C10_Witness ==
  /\ pc = "bfs"
  /\ \E p \in DOMAIN patch_W : \E q \in DOMAIN patch_W :
       /\ p # q /\ patch_labels[p] # patch_labels[q]
       /\ p # P[outer_facet_idx] /\ q # P[outer_facet_idx]
       /\ winding_num_assigned(patch_W, p) /\ winding_num_assigned(patch_W, q)
       /\ patch_W[p][0] < 0

\* Cells joined to the cells of S by a path of patch edges.
RECURSIVE ConnectedCells(_, _)
ConnectedCells(cv, S) ==
  LET T == S \cup {cv[i][s] : i \in {i \in DOMAIN cv : cv[i][0] \in S \/ cv[i][1] \in S},
                              s \in Rows(2)}
  IN IF T = S THEN S ELSE ConnectedCells(cv, T)

SeedCell == infinity_cell(per_patch_cells, P, outer_facet_idx, outer_facet_is_flipped)

\* The mesh as the patch-wise propagator of one component receives it.
CrossCheckArrangement ==
  Arrangement(P, patch_labels, orders, orientations,
              outer_facet_idx, outer_facet_is_flipped)

\* A valid arrangement of one component: two-colourable cell graph, curves
\* recorded and linking every patch, a patch-wise result that is assigned
\* everywhere and passes the verification, and no two patches around the
\* seed cell that disagree on the row of a shared neighbour cell.
ValidArrangement ==
  /\ is_orientable
  /\ odd_cycle = <<>>
  /\ SingleComponent(Size(patch_labels), orders)
  /\ \A p \in DOMAIN patch_labels :
       winding_num_assigned(PatchWiseW(CrossCheckArrangement), p)
  /\ winding_number_assignment_is_consistent(orders, orientations,
                                             PatchWiseW(CrossCheckArrangement))
  /\ ~CellDequeue(per_patch_cells, patch_labels,
                  SeedCellW(per_patch_cells, patch_labels, SeedCell),
                  <<SeedCell>>).mismatch

\* C4 as stated: on a valid arrangement of one component the cell-wise
\* result equals the per-face result of the patch-wise propagator.
C4_PatchWiseEqualsCellWise ==
  (pc = "cw_done" /\ ValidArrangement)
    => W = SingleComponentW(CrossCheckArrangement)

\* C5 as stated: when the cell-wise propagation is over, every cell joined
\* to the seed cell by patch edges has a row without INVALID, and so has
\* every face between two such cells.
C5_ConnectedCellsAssigned ==
  /\ pc \in {"readoff", "cw_done"} =>
       \A c \in ConnectedCells(per_patch_cells, {SeedCell}) :
         \A i \in DOMAIN per_cell_W[c] : per_cell_W[c][i] # INVALID
  /\ pc = "cw_done" =>
       \A f \in DOMAIN W :
         (\A s \in Rows(2) :
            per_patch_cells[P[f]][s] \in ConnectedCells(per_patch_cells, {SeedCell}))
           => \A c \in DOMAIN W[f] : W[f][c] # INVALID

\* Some unique edge has an odd number of incident half-edges.
OddEdge == \E e \in DOMAIN uE2E : uE2E[e] % 2 # 0

\* C1 as stated: propagate_winding_numbers hands back, next to W, a boolean
\* that is false when the verification of some component failed and true
\* otherwise.
C1_ReturnsConsistency ==
  pc = "mc_done" =>
    /\ Len(ReturnValue) = 1
    /\ ReturnValue[1] = (cout = <<>>)

\* C2: with an odd-degree edge the call only ever waits at the check or has
\* ended in the error, and no propagation step has happened: no component
\* gathered, no component run, W untouched, no correction, no report.
C2_OddDegreeRejectedFirst ==
  OddEdge =>
    /\ pc \in {"mc_check", "mc_error"}
    /\ components = EmptyVec /\ comp_labels = EmptyVec
    /\ Ws = EmptyVec /\ W \in CallerW
    /\ ambient_correction = EmptyVec
    /\ cf_fids = EmptyVec /\ cf_orientation = EmptyVec
    /\ cout = <<>> /\ comp_i = 0

C2_Witness ==
  /\ pc = "mc_error"
  /\ num_components = 2
  /\ uE2E[0] = 2
  /\ \E c \in DOMAIN comp_geometry : Size(comp_geometry[c].orders) > 0

\* A closed manifold of label 0 wound outward: one patch, no intersection
\* curve, every face of label 0, outer face reported as not flipped.
ClosedOutward(c) ==
  /\ maxCoeff(comp_geometry[c].P) = 0
  /\ Size(comp_geometry[c].orders) = 0
  /\ \A f \in DOMAIN C : C[f] = c => labels[f] = 0
  /\ ~comp_geometry[c].outer_facet_is_flipped

\* The containment query puts the sample of component n behind the nearest
\* face of component o (inside o) and the sample of o in front of the
\* nearest face of n (outside n).
StrictlyInside(n, o) ==
  /\ ~cf_orientation[o][index_without_i(o, n)]
  /\ cf_orientation[n][index_without_i(n, o)]

\* C9: two closed label-0 components, n strictly inside o: every face of o
\* ends with (front, back) = (0, 1) and every face of n with (1, 2).
C9_NestedComponents ==
  (pc = "mc_done" /\ num_components = 2) =>
    \A o \in Rows(2) : \A n \in Rows(2) :
      (o # n /\ ClosedOutward(o) /\ ClosedOutward(n) /\ StrictlyInside(n, o)) =>
        \A f \in DOMAIN W :
          W[f] = IF C[f] = o THEN Row2(0, 1) ELSE Row2(1, 2)

C9_Witness ==
  /\ pc = "mc_done" /\ num_components = 2
  /\ ClosedOutward(0) /\ ClosedOutward(1) /\ StrictlyInside(0, 1)
  /\ Size(C) = 3
  /\ W[0] = Row2(1, 2)

\* The position of face f inside its own component.
LocalIndex(f) == Cardinality({h \in DOMAIN C : h < f /\ C[h] = C[f]})

\* The row of face f as its component's own run left it in W: the columns
\* of Ws, zero in the columns the component's run does not have.
UncorrectedRow(f) ==
  [c \in Rows(2 * (maxCoeff(labels) + 1)) |->
     IF c \in DOMAIN Ws[C[f]][LocalIndex(f)] THEN Ws[C[f]][LocalIndex(f)][c] ELSE 0]

\* The result of the own run of component c.
OwnRun(c) ==
  SingleComponentW(ComponentArrangement(comp_geometry[c], comp_labels[c]))

\* C11: once the verification of some component has failed the call never
\* ends in an error; the rows of every component that has had its turn,
\* the failed ones included, are in W, every component has been propagated
\* when the loop is over, and at the end every face holds its own row plus
\* the correction of its component, computed against every other component.
C11_InconsistentStillCompletes ==
  cout # <<>> =>
    /\ pc \in {"mc_propagate", "mc_nested", "mc_correct", "mc_apply", "mc_done"}
    /\ \A i \in 1..Len(cout) : Ws[cout[i]] = OwnRun(cout[i])
    /\ pc = "mc_propagate" =>
         \A f \in DOMAIN W : C[f] < comp_i => W[f] = UncorrectedRow(f)
    /\ pc \in {"mc_nested", "mc_correct", "mc_apply", "mc_done"} =>
         \A c \in Rows(num_components) : Ws[c] = OwnRun(c)
    /\ pc = "mc_done" =>
         /\ \A c \in Rows(num_components) :
              Size(cf_orientation[c]) = num_components - 1
         /\ \A f \in DOMAIN W : \A c \in DOMAIN W[f] :
              W[f][c] = UncorrectedRow(f)[c] + ambient_correction[C[f]][c]

C11_Witness ==
  /\ pc = "mc_done"
  /\ num_components = 2
  /\ cout = <<0>>
  /\ \E c \in DOMAIN ambient_correction[0] : ambient_correction[0][c] # 0
  /\ \E c \in DOMAIN ambient_correction[1] : ambient_correction[1][c] # 0

\* C12 as stated: once an odd cycle has been reported the cell-wise
\* propagator goes on: the call is at the seeding, in the cell BFS, at the
\* read-off or has returned, and a returned call has filled W.
C12_OddCycleStillRuns ==
  odd_cycle # <<>> =>
    /\ pc \in {"cw_seed", "cw_bfs", "readoff", "cw_done"}
    /\ pc = "cw_done" => Size(W) = Size(P)

\* The row the crossing rule derives for the cell on the other side of
\* patch p, seen from its side s (0: front cell, 1: back cell).
CrossedRow(M, p, s) ==
  [i \in DOMAIN M[per_patch_cells[p][s]] |->
     M[per_patch_cells[p][s]][i]
       + (IF patch_labels[p] = i THEN (IF s = 0 THEN 1 ELSE -1) ELSE 0)]

\* C13 as stated: when the cell BFS is over without a failure, across every
\* patch of the processed (seed) cell the stored row of the neighbour is
\* the row the crossing rule derives from the processed cell; a mismatch
\* never gets as far as the read-off.
C13_RevisitAgrees ==
  pc \in {"readoff", "cw_done"} =>
    \A p \in DOMAIN per_patch_cells : \A s \in Rows(2) :
      per_patch_cells[p][s] = SeedCell =>
        per_cell_W[per_patch_cells[p][1 - s]] = CrossedRow(per_cell_W, p, s)

\* The place of component j's sample among the samples handed to the query
\* against component i: the components before j, i left out.
SampleOf(i, j) == Cardinality({x \in Rows(num_components) \ {i} : x < j})

\* What component i contributes to column c of the correction of component
\* j: the uncorrected value of the nearest face of i, front column of the
\* label when the orientation flag is true, back column otherwise.
Contribution(i, j, c) ==
  UncorrectedRow(components[i][cf_fids[i][SampleOf(i, j)]])
    [2 * (c \div 2) + (IF cf_orientation[i][SampleOf(i, j)] THEN 0 ELSE 1)]

\* The contributions of components i, i+1, ... other than j.
RECURSIVE ContributionsFrom(_, _, _)
ContributionsFrom(i, j, c) ==
  IF i >= num_components THEN 0
  ELSE (IF i = j THEN 0 ELSE Contribution(i, j, c)) + ContributionsFrom(i + 1, j, c)

\* C14: when the correction loop is over, the correction of every component
\* j is, per column, the sum of the contributions of every other component,
\* each once; at the end every face of j holds its own row plus that sum;
\* with one component the correction is zero.
C14_CorrectionIsPairSum ==
  /\ pc \in {"mc_apply", "mc_done"} =>
       \A j \in Rows(num_components) : \A c \in DOMAIN ambient_correction[j] :
         /\ ambient_correction[j][c] = ContributionsFrom(0, j, c)
         /\ num_components = 1 => ambient_correction[j][c] = 0
  /\ pc = "mc_done" =>
       \A f \in DOMAIN W : \A c \in DOMAIN W[f] :
         W[f][c] = UncorrectedRow(f)[c] + ContributionsFrom(0, C[f], c)

C14_Witness ==
  /\ pc = "mc_done"
  /\ num_components = 3
  /\ \E c \in DOMAIN ambient_correction[1] : ambient_correction[1][c] = 2
  /\ \E c \in DOMAIN ambient_correction[0] : ambient_correction[0][c] = -1

\* The contributions of the components before n, other than j.
RECURSIVE ContributionsBefore(_, _, _)
ContributionsBefore(n, j, c) ==
  IF n = 0 THEN 0
  ELSE ContributionsBefore(n - 1, j, c)
         + (IF n - 1 = j THEN 0 ELSE Contribution(n - 1, j, c))

\* C15: from the end of the per-component loop until the final loop no row
\* of W differs from the row of the component's own run; in the correction
\* loop the corrections accumulated so far are sums of values of those own
\* rows; the final loop starts only when every component has been queried
\* against the samples of all the others.
C15_CorrectionsReadOwnRuns ==
  /\ pc \in {"mc_nested", "mc_correct", "mc_apply"} =>
       \A f \in DOMAIN W : W[f] = UncorrectedRow(f)
  /\ pc = "mc_correct" =>
       \A j \in Rows(num_components) : \A c \in DOMAIN ambient_correction[j] :
         ambient_correction[j][c] = ContributionsBefore(comp_i, j, c)
  /\ pc \in {"mc_apply", "mc_done"} =>
       \A i \in Rows(num_components) :
         Size(cf_fids[i]) = num_components - 1
           /\ Size(cf_orientation[i]) = num_components - 1

C15_Witness ==
  /\ pc = "mc_correct"
  /\ num_components = 3
  /\ comp_i = 2
  /\ \E c \in DOMAIN ambient_correction[2] : ambient_correction[2][c] = 2
  /\ \E f \in DOMAIN W : \E c \in DOMAIN W[f] : W[f][c] = -1

\* The row the stated rule gives an unassigned neighbour q of the dequeued
\* patch p: s is p's front value of the label for the forward neighbour and
\* p's back value for the backward one; for q's own label (front, back) is
\* (s-1, s) or (s, s+1), for every other label both columns are s.
RuleRow(p, q, forward, flags_equal) ==
  [c \in Rows(2 * (maxCoeff(patch_labels) + 1)) |->
     LET l == c \div 2
         s == patch_W[p][IF forward THEN 2 * l ELSE 2 * l + 1]
     IN IF l # patch_labels[q] THEN s
        ELSE IF forward = flags_equal
             THEN (IF c % 2 = 0 THEN s - 1 ELSE s)
             ELSE (IF c % 2 = 0 THEN s ELSE s + 1)]

\* q is derived by the stated rule from p on curve c, p taken at its first
\* position i on the curve: forward neighbour at (i+1) mod n when p's flag
\* is true and at (i-1) mod n otherwise, backward neighbour at the other.
DerivedOn(c, p, q, row) ==
  /\ \E i \in DOMAIN orders[c] : orders[c][i] = p
  /\ LET n == Size(orders[c])
         i == CHOOSE i \in DOMAIN orders[c] :
                orders[c][i] = p /\ \A j \in Rows(i) : orders[c][j] # p
         o == orientations[c][i]
         fw == IF o THEN (i + 1) % n ELSE (i + n - 1) % n
         bw == IF o THEN (i + n - 1) % n ELSE (i + 1) % n
     IN \/ /\ orders[c][fw] = q
           /\ row = RuleRow(p, q, TRUE, orientations[c][fw] = o)
        \/ /\ orders[c][bw] = q /\ orders[c][fw] # q
           /\ row = RuleRow(p, q, FALSE, orientations[c][bw] = o)

\* C16: every patch that a step of the BFS assigns is the forward or the
\* backward neighbour of the dequeued patch on one of its curves and gets
\* the row of the stated rule.
C16_DerivationRule ==
  [][(pc = "bfs" /\ Q # <<>>) =>
       \A q \in DOMAIN patch_W :
         (~winding_num_assigned(patch_W, q) /\ winding_num_assigned(patch_W', q)) =>
           \E c \in DOMAIN orders : DerivedOn(c, Head(Q), q, patch_W'[q])]_vars

C16_Witness ==
  /\ pc = "bfs"
  /\ \E q \in DOMAIN patch_W :
       /\ q # P[outer_facet_idx] /\ winding_num_assigned(patch_W, q)
       /\ patch_W[q][2 * patch_labels[q]] = 1
  /\ \E q \in DOMAIN patch_W :
       /\ q # P[outer_facet_idx] /\ winding_num_assigned(patch_W, q)
       /\ patch_W[q][2 * patch_labels[q]] = -1
  /\ \E q \in DOMAIN patch_W :
       /\ winding_num_assigned(patch_W, q)
       /\ \E l \in Rows(maxCoeff(patch_labels) + 1) :
            l # patch_labels[q] /\ patch_W[q][2 * l] # 0

\* The BFS has not started: the seed patch is still the front of the queue.
JustSeeded == pc = "bfs" /\ Q # <<>> /\ Head(Q) = P[outer_facet_idx]

\* C17: before the BFS starts the patch of the outer face is 0 in every
\* column except, for its own label, (front, back) = (-1, 0) when the outer
\* face is flipped and (0, 1) when it is not; every other patch is INVALID
\* in every column.
C17_SeedRow ==
  JustSeeded =>
    \A p \in DOMAIN patch_W : \A c \in DOMAIN patch_W[p] :
      patch_W[p][c] =
        IF p # P[outer_facet_idx] THEN INVALID
        ELSE IF c \div 2 # patch_labels[p] THEN 0
        ELSE IF outer_facet_is_flipped THEN (IF c % 2 = 0 THEN -1 ELSE 0)
        ELSE (IF c % 2 = 0 THEN 0 ELSE 1)

C17_Witness ==
  /\ JustSeeded
  /\ outer_facet_is_flipped
  /\ patch_labels[P[outer_facet_idx]] = 1
  /\ P[outer_facet_idx] = 1
  /\ Size(patch_W) = 3
  /\ Size(patch_W[0]) = 4

\* C18: a step of the propagation never changes a row that holds no
\* INVALID entry, and every row it changes was INVALID in every column.
C18_AssignedRowsKept ==
  [][\A p \in DOMAIN patch_W :
       /\ winding_num_assigned(patch_W, p) => patch_W'[p] = patch_W[p]
       /\ patch_W'[p] # patch_W[p] =>
            \A c \in DOMAIN patch_W[p] : patch_W[p][c] = INVALID]_vars

C18_Witness ==
  /\ pc = "expand"
  /\ ~is_consistent
  /\ AllAssigned
  /\ Size(patch_W) = 3
  /\ \E c \in DOMAIN orders : Size(orders[c]) = 4

\* The cell-adjacency graph admits a two-colouring.
Bipartite(cv) ==
  \E col \in [Rows(NumCells(cv)) -> {1, -1}] :
    \A p \in DOMAIN cv : col[cv[p][0]] # col[cv[p][1]]

OddCycleChecked == pc \notin {"beta", "abort_entry"}

\* C19: once the odd-cycle check has run, a path is reported exactly when
\* the cell-adjacency graph is not bipartite; when none is reported every
\* cell is coloured 1 or -1 and the two cells of every patch differ in colour.
C19_FlaggedIffNotBipartite ==
  OddCycleChecked =>
    /\ (odd_cycle # <<>>) <=> ~Bipartite(per_patch_cells)
    /\ odd_cycle = <<>> =>
         /\ \A c \in DOMAIN cell_labels : cell_labels[c] \in {1, -1}
         /\ DOMAIN cell_labels = Rows(NumCells(per_patch_cells))
         /\ \A p \in DOMAIN per_patch_cells :
              cell_labels[per_patch_cells[p][0]] # cell_labels[per_patch_cells[p][1]]

\* The odd cycle lies in a component of the cell graph other than cell 0's.
C19_Witness ==
  /\ pc = "cw_seed"
  /\ is_orientable
  /\ odd_cycle # <<>>
  /\ \A k \in 1..Len(odd_cycle) : \A j \in 1..Len(odd_cycle[k]) : odd_cycle[k][j] # 0
  /\ \E p \in DOMAIN per_patch_cells : per_patch_cells[p] = [s \in Rows(2) |-> s]

\* The cells given a row by the step: INVALID somewhere before, nowhere after.
CellAssigned(M, c) == \A i \in DOMAIN M[c] : M[c][i] # INVALID

\* The connection of curr_cell through which neighbour n is first met.
FirstConnection(curr_cell, n) ==
  LET conns == {x \in cell_adjacency(per_patch_cells, curr_cell) : x[1] = n}
  IN CHOOSE x \in conns : \A y \in conns \ {x} : TupleLess(x, y)

\* C20: the seeding step gives the all-zero row to column 0 (front cell) of
\* the outer face's patch when the face is not flipped and to column 1
\* (back cell) when it is, and to no other cell; every cell given a row by
\* a step of the cell BFS from cell c across patch p holds c's row with the
\* component of p's label one less when c is p's back cell and one more
\* when c is p's front cell, the other components being those of c.
C20_SeedAndCrossing ==
  [][/\ pc = "cw_seed" =>
          LET seed == IF outer_facet_is_flipped
                      THEN per_patch_cells[P[outer_facet_idx]][1]
                      ELSE per_patch_cells[P[outer_facet_idx]][0]
          IN /\ Q' = <<seed>>
             /\ DOMAIN per_cell_W' = Rows(NumCells(per_patch_cells))
             /\ \A c \in DOMAIN per_cell_W' : \A i \in DOMAIN per_cell_W'[c] :
                  per_cell_W'[c][i] = IF c = seed THEN 0 ELSE INVALID
     /\ pc = "cw_bfs" /\ pc' # "abort" =>
          \A n \in DOMAIN per_cell_W :
            ~CellAssigned(per_cell_W, n) /\ CellAssigned(per_cell_W', n) =>
              LET c == Head(Q)
                  p == FirstConnection(c, n)[3]
                  from_back == FirstConnection(c, n)[2]
              IN /\ per_patch_cells[p][IF from_back THEN 1 ELSE 0] = c
                 /\ per_patch_cells[p][IF from_back THEN 0 ELSE 1] = n
                 /\ \A i \in DOMAIN per_cell_W'[n] :
                      per_cell_W'[n][i] =
                        IF i # patch_labels[p] THEN per_cell_W[c][i]
                        ELSE IF from_back THEN per_cell_W[c][i] - 1
                        ELSE per_cell_W[c][i] + 1]_vars

\* A flipped outer face; one cell was reached from the seed back to front
\* and another front to back.
C20_Witness ==
  /\ pc = "readoff"
  /\ is_orientable
  /\ outer_facet_is_flipped
  /\ odd_cycle = <<>>
  /\ \E p, q \in DOMAIN per_patch_cells :
       /\ per_patch_cells[p][1] = SeedCell
       /\ per_patch_cells[q][0] = SeedCell
       /\ per_cell_W[per_patch_cells[p][0]][patch_labels[p]] = -1
       /\ per_cell_W[per_patch_cells[q][1]][patch_labels[q]] = 1

\* C21: when the patch-wise propagator has returned true, at every position
\* of every curve the rows stored for the forward and for the backward
\* neighbour of the patch p at that position are the rows the crossing rule
\* derives for them from the final row of p.
C21_ConsistentRederives ==
  (Returned /\ is_consistent) =>
    \A c \in DOMAIN orders : \A i \in DOMAIN orders[c] :
      LET n == Size(orders[c])
          p == orders[c][i]
          o == orientations[c][i]
          fw == IF o THEN (i + 1) % n ELSE (i + n - 1) % n
          bw == IF o THEN (i + n - 1) % n ELSE (i + 1) % n
      IN /\ patch_W[orders[c][fw]]
              = RuleRow(p, orders[c][fw], TRUE, orientations[c][fw] = o)
         /\ patch_W[orders[c][bw]]
              = RuleRow(p, orders[c][bw], FALSE, orientations[c][bw] = o)

\* A consistent return over three patches on a curve of four incidences,
\* both labels in use.
C21_Witness ==
  /\ pc = "expand"
  /\ is_consistent
  /\ Size(patch_W) = 3
  /\ \E c \in DOMAIN orders : Size(orders[c]) = 4
  /\ maxCoeff(patch_labels) = 1

\* C22: the step that ends propagate_winding_numbers_single_component
\* leaves W with one row per face and 2 * (largest label + 1) columns, the
\* row of a face being the row of the patch that owns it (two faces of one
\* patch hold equal rows), and the boolean it returns is the one the
\* patch-wise propagator returned.
C22_ExpansionPerFace ==
  [][pc = "expand" =>
       /\ pc' = "done"
       /\ DOMAIN W' = DOMAIN P
       /\ \A f \in DOMAIN P :
            /\ DOMAIN W'[f] = Rows(2 * (maxCoeff(labels) + 1))
            /\ W'[f] = patch_W[P[f]]
       /\ \A f, g \in DOMAIN P : P[f] = P[g] => W'[f] = W'[g]
       /\ is_consistent' = is_consistent
       /\ patch_W' = patch_W]_vars

\* Returned with true: two faces share a patch, a third face lies on a
\* patch with another row, two labels.
C22_Witness ==
  /\ pc = "done"
  /\ is_consistent
  /\ Size(W) = 3
  /\ Size(W[0]) = 4
  /\ \E f, g, h \in DOMAIN W : f # g /\ P[f] = P[g] /\ W[h] # W[f]

RECURSIVE SumBelow(_, _)
SumBelow(v, n) == IF n = 0 THEN 0 ELSE v[n - 1] + SumBelow(v, n - 1)

\* Iterations of while (!Q.empty()) so far: every push but those still queued.
Dequeues == SumBelow(pushes, Size(pushes)) - Len(Q)

BfsStarted == pc \in {"bfs", "verify", "abort", "expand", "done"}

\* C23: from the seeding on, no patch has been pushed more than once, the
\* pushed patches are exactly the assigned ones (the seed at the start, any
\* other patch when its row is written), and the loop has made at most as
\* many iterations as there are patches.
C23_PushedAtMostOnce ==
  BfsStarted =>
    /\ \A p \in DOMAIN pushes :
         /\ pushes[p] <= 1
         /\ pushes[p] = 1 <=> winding_num_assigned(patch_W, p)
    /\ pushes[P[outer_facet_idx]] = 1
    /\ Dequeues >= 0
    /\ Dequeues <= Size(patch_W)
    /\ pc # "bfs" => Q = <<>>

\* The loop has ended after three iterations over a curve that meets the
\* three patches on four incidences.
C23_Witness ==
  /\ pc = "verify"
  /\ Q = <<>>
  /\ Dequeues = 3
  /\ \E c \in DOMAIN orders : Size(orders[c]) = 4

\* C24: no step of a call on a mesh with an edge of odd degree changes W;
\* the call ends in the rejection with W as the caller handed it in.
C24_RejectionKeepsW ==
  [][OddEdge => /\ W' = W
                /\ pc = "mc_check" /\ pc' = "mc_error"]_vars

\* Rejected, and the caller's earlier content is still in W.
C24_Witness ==
  /\ pc = "mc_error"
  /\ OddEdge
  /\ W # EmptyVec
  /\ W[0][0] = 7
  /\ num_components = 2

\* back - front of label k on face f in the own run of f's component; a
\* label the component's run has no columns for gives 0.
OwnDifference(f, k) ==
  LET r == OwnRun(C[f])[LocalIndex(f)]
  IN IF 2 * k + 1 \in DOMAIN r THEN r[2 * k + 1] - r[2 * k] ELSE 0

\* C25: the correction of a component holds the same amount in the front
\* and in the back column of every label, and at the end back - front of
\* every label on every face is what the own run of the face's component
\* gave.
C25_DifferenceKept ==
  /\ pc \in {"mc_correct", "mc_apply", "mc_done"} =>
       \A j \in DOMAIN ambient_correction : \A k \in Rows(maxCoeff(labels) + 1) :
         ambient_correction[j][2 * k] = ambient_correction[j][2 * k + 1]
  /\ pc = "mc_done" =>
       \A f \in DOMAIN W : \A k \in Rows(maxCoeff(labels) + 1) :
         W[f][2 * k + 1] - W[f][2 * k] = OwnDifference(f, k)

\* At the end a face whose own label differs by one across it has received
\* a correction on that label, and some face one on a label not its own.
C25_Witness ==
  /\ pc = "mc_done"
  /\ num_components >= 2
  /\ \E f \in DOMAIN W : \E k \in Rows(maxCoeff(labels) + 1) :
       OwnDifference(f, k) = 1 /\ ambient_correction[C[f]][2 * k] # 0
  /\ \E f \in DOMAIN W : \E k \in Rows(maxCoeff(labels) + 1) :
       OwnDifference(f, k) = 0 /\ ambient_correction[C[f]][2 * k] # 0

\* The columns of face f that belong to labels above the largest label of
\* f's component.
ColumnsAbove(f) ==
  {c \in Rows(2 * (maxCoeff(labels) + 1)) : c \div 2 > maxCoeff(comp_labels[C[f]])}

\* C26: from the resize of W until the final loop the columns of labels
\* above a component's largest label are 0 on its faces; at the end they
\* hold the correction of the component; a mesh of one component ends with
\* the W of propagate_winding_numbers_single_component on that component.
C26_ColumnsAboveAndSingle ==
  /\ pc \in {"mc_propagate", "mc_nested", "mc_correct", "mc_apply"} =>
       \A f \in DOMAIN W : \A c \in ColumnsAbove(f) : W[f][c] = 0
  /\ pc = "mc_done" =>
       /\ \A f \in DOMAIN W : \A c \in ColumnsAbove(f) :
            W[f][c] = ambient_correction[C[f]][c]
       /\ num_components = 1 => W = OwnRun(0)

\* At the end a face of a component without label 1 holds a correction
\* other than 0 in a column of label 1.
C26_Witness ==
  /\ pc = "mc_done"
  /\ num_components = 2
  /\ \E f \in DOMAIN W : \E c \in ColumnsAbove(f) : W[f][c] # 0

====
